---- MODULE Spec2Model ----
(***************************************************************************)
(* Model of tsi_tools.py: the terrain shape index pipeline                 *)
(*   create_cardinals -> raster_extract(plots) -> raster_extract(cardinals)*)
(*   -> calculate_zhat -> calculate_tsi                                    *)
(* over a plot point table and a cardinal point table.                     *)
(*                                                                         *)
(* Numbers.  Coordinates are fixed point: Scale units per map unit, so     *)
(* that the sub-cardinal offset cos(45 deg) * radius is an integer.        *)
(* Elevations are integers.  A z-hat or a TSI is an exact fraction         *)
(* <<num, den>>.  A field that holds no value is Null (the empty tuple),   *)
(* a field that holds v is <<v>> (or the fraction).                        *)
(*                                                                         *)
(* Tables.  arcpy presents a table through cursors.  Two storage formats   *)
(* are modelled (variable nullable):                                       *)
(*   - a shapefile (nullable = FALSE): FID is the record number, 0..n-1 in *)
(*     storage order, and a numeric field that was never written reads 0;  *)
(*   - a table with nullable fields (nullable = TRUE): the FID column      *)
(*     holds any distinct numbers in any storage order, and a field that   *)
(*     was never written reads None.                                       *)
(* The model keeps Null in a field until the program writes it, in both    *)
(* formats; ReadField is what a cursor hands to the program.               *)
(*                                                                         *)
(* Faults.  The environment may fail one cursor call (an insert into the   *)
(* cardinal table, the opening of its insert cursor, the opening of the    *)
(* update cursor of extract_elevation); sampling failures are decided by   *)
(* the raster (a point outside its extent or on a no-data cell).           *)
(***************************************************************************)
EXTENDS Integers, Sequences, FiniteSets, TLC

VARIABLES
    plots,       \* the plot table (inputPlots): sequence of rows
    cardinals,   \* the cardinal table (outputCardinals): sequence of rows
    inputRadius, \* sys.argv[2], in map units
    inputRaster, \* the elevation raster (inputRaster)
    outRaster,   \* 'outraster.tif': Null, or <<raster>> while the file exists
    nullable,    \* storage format of the tables (see above)
    pc,          \* position of __main__
    target,      \* the table raster_extract is working on
    elevArg,     \* the raster name raster_extract hands to extract_elevation
    tried,       \* points whose sampling was attempted in this run
    failed,      \* points whose sampling raised in this run
    run,         \* 1 = first run of the pipeline, 2 = second run
    faulted,     \* whether the environment has already failed a cursor call
    tsiFirst     \* FID -> TSI at the end of the first run

vars == <<plots, cardinals, inputRadius, inputRaster, outRaster, nullable, pc,
          target, elevArg, tried, failed, run, faulted, tsiFirst>>

----------------------------------------------------------------------------
(* Bounds of the model *)

MaxPlots == 2

(* Program constants *)

Scale == 10000
Cos45Num == 7071
NumCardinals == 8

Null == << >>

CellSize == Scale
Half == Scale \div 2

\* Radii given on the command line: float(sys.argv[2]) is not checked.
Radii == {-1, 0, 1, 2}

\* FID values of a table with a free FID column.
FreeIds == 0 .. MaxPlots

\* The raster's extent, in cells of its own grid.
Cols == 0 .. 3
Rows == 0 .. 3
\* Cells that may hold the no-data value.
NoDataCells == {<<1, 1>>, <<1, 2>>, <<0, 2>>}
\* The no-data cells of the rasters tried: none, or one of NoDataCells.
NoDataSets == {{}} \cup {{c} : c \in NoDataCells}
\* The reliefs of the rasters tried (see Height).
Reliefs == {3}

\* The spatial reference of the plot table, and those the raster may have.
PointSR == "P"
RasterSRs == {"P", "R"}

----------------------------------------------------------------------------
(* Sequences *)

RECURSIVE SeqSum(_)
SeqSum(s) == IF s = << >> THEN 0 ELSE Head(s) + SeqSum(Tail(s))

RECURSIVE Flatten(_)
Flatten(ss) == IF ss = << >> THEN << >> ELSE Head(ss) \o Flatten(Tail(ss))

Injective(s) == \A i, j \in DOMAIN s : s[i] = s[j] => i = j

Take(s, n) == SubSeq(s, 1, n)

----------------------------------------------------------------------------
(* The plot table at the start *)

\* Where the plot with FID f lies (cell centres of the raster's grid).
Center(f) == <<(f + 1) * CellSize + Half, (1 + (f % 2)) * CellSize + Half>>

PlotRow(f) ==
    [FID |-> f, x |-> Center(f)[1], y |-> Center(f)[2],
     RasElev |-> Null, Zhat |-> Null, TSI |-> Null]

\* Shapefile: FID = record number.
ShapefileFids == {[i \in 1 .. n |-> i - 1] : n \in 1 .. MaxPlots}

\* Free FID column: distinct values, any order.
FreeFids ==
    UNION {{s \in [1 .. n -> FreeIds] : Injective(s)} : n \in 1 .. MaxPlots}

----------------------------------------------------------------------------
(* The raster *)

\* Elevation of cell <<c, r>> of a raster of relief k.
Height(k, c, r) == 50 + k * (c * c + 2 * r + c * r)

\* Offset between the coordinates of two spatial references.
Shift(from, to) == IF from = to THEN 0 ELSE IF to = PointSR THEN CellSize ELSE -CellSize

\* arcpy.ProjectRaster_management: the same surface in another reference.
ProjectRaster(ras, sr) == [ras EXCEPT !.sr = sr, !.dx = ras.dx + Shift(ras.sr, sr)]

\* arcpy.GetCellValue_management followed by float(str(..)): <<v>>, or Null
\* when the tool answers 'NoData' (outside the extent, or a no-data cell)
\* and float() raises.
GetCellValue(ras, x, y) ==
    LET c == (x - ras.dx) \div CellSize
        r == y \div CellSize
    IN  IF c \in Cols /\ r \in Rows /\ <<c, r>> \notin ras.nodata
        THEN <<Height(ras.relief, c, r)>>
        ELSE Null

----------------------------------------------------------------------------
Init ==
    /\ nullable \in BOOLEAN
    /\ \E fids \in (IF nullable THEN FreeFids ELSE ShapefileFids) :
           plots = [i \in DOMAIN fids |-> PlotRow(fids[i])]
    /\ cardinals = << >>
    /\ inputRadius \in Radii
    /\ \E sr \in RasterSRs, k \in Reliefs,
          nd \in NoDataSets :
           inputRaster = [sr |-> sr, dx |-> 0, relief |-> k, nodata |-> nd]
    /\ outRaster = Null
    /\ pc = "create"
    /\ target = "plots"
    /\ elevArg = "input"
    /\ tried = {}
    /\ failed = {}
    /\ run = 1
    /\ faulted = FALSE
    /\ tsiFirst = Null

----------------------------------------------------------------------------
(* create_cardinals *)

\* Variant of SubOffset: the factor cos(45 deg) is left out.
SubOffsetNoCos(plotRadius) == plotRadius * Scale

\* cos(45 deg) * plotRadius, in coordinate units (Scale units per map unit).
SubOffset(plotRadius) == (Cos45Num * (plotRadius * Scale)) \div Scale

\* The rows create_cardinals inserts for one plot row, in the order of the
\* insertRow calls: N, S, E, W, NE, SE, NW, SW.
CardinalRows(row, plotRadius) ==
    LET r == plotRadius * Scale
        d == SubOffset(plotRadius)
        P(px, py) == [Id |-> row.FID, x |-> px, y |-> py, RasElev |-> Null]
    IN  << P(row.x, row.y + r), P(row.x, row.y - r),
           P(row.x + r, row.y), P(row.x - r, row.y),
           P(row.x + d, row.y + d), P(row.x + d, row.y - d),
           P(row.x - d, row.y + d), P(row.x - d, row.y - d) >>

\* A fault of create_cardinals: none, or <<pos, k>>: while the plot row at
\* position pos is handled, the k-th insertRow raises (k = 0: the opening of
\* the InsertCursor raises).
NoFault == << >>
InsertFaults(rows) == {<<i, k>> : i \in DOMAIN rows, k \in 0 .. NumCardinals}

\* The cardinal table create_cardinals leaves.  A raising insertRow is caught
\* by the inner handler: the plot keeps the rows inserted so far and the loop
\* goes on.  A raising InsertCursor leaves insertCursor unbound, so the inner
\* handler's 'del insertCursor' raises in turn, the outer handler ends the
\* loop, and no later plot gets a row.
CreateCardinalRows(rows, plotRadius, fault) ==
    Flatten([i \in DOMAIN rows |->
        LET all == CardinalRows(rows[i], plotRadius)
        IN  IF fault = NoFault \/ i < fault[1] THEN all
            ELSE IF fault[2] = 0 THEN << >>
            ELSE IF i = fault[1] THEN Take(all, fault[2] - 1)
            ELSE all])

CreateCardinals ==
    /\ pc = "create"
    /\ \E fault \in {NoFault} \cup (IF faulted THEN {} ELSE InsertFaults(plots)) :
          /\ cardinals' = CreateCardinalRows(plots, inputRadius, fault)
          /\ faulted' = (faulted \/ fault # NoFault)
    /\ pc' = "rx"
    /\ target' = "plots"
    /\ UNCHANGED <<plots, inputRadius, inputRaster, outRaster, nullable,
                   elevArg, tried, failed, run, tsiFirst>>

----------------------------------------------------------------------------
(* raster_extract and extract_elevation *)

Table(t) == IF t = "plots" THEN plots ELSE cardinals

\* The raster a name stands for.
Raster(name) == IF name = "out" THEN outRaster[1] ELSE inputRaster

\* The stage after raster_extract(t) in __main__.
AfterExtract(t) == IF t = "plots" THEN "rx" ELSE "zhat"

\* raster_extract up to its call of extract_elevation: the references are
\* compared and, when they differ, the raster is projected to 'outraster.tif'.
SameReference(ras) == ras.sr = PointSR

RasterExtract ==
    /\ pc = "rx"
    /\ IF SameReference(inputRaster)
       THEN /\ elevArg' = "input"
            /\ UNCHANGED outRaster
       ELSE /\ outRaster' = <<ProjectRaster(inputRaster, PointSR)>>
            /\ elevArg' = "out"
    /\ pc' = "extract"
    /\ UNCHANGED <<plots, cardinals, inputRadius, inputRaster, nullable, target,
                   tried, failed, run, faulted, tsiFirst>>

\* Position of the first row whose sampling raises, Len(rows) + 1 if none.
RECURSIVE FirstFailure(_, _, _)
FirstFailure(rows, ras, i) ==
    IF i > Len(rows) THEN i
    ELSE IF GetCellValue(ras, rows[i].x, rows[i].y) = Null THEN i
    ELSE FirstFailure(rows, ras, i + 1)

\* Last position the cursor loop of extract_elevation writes: the try block
\* encloses the whole loop, so the first raising row ends it.
LastSampled(rows, ras) == FirstFailure(rows, ras, 1) - 1

\* The rows after extract_elevation's cursor loop.
SampledRows(rows, ras) ==
    [i \in DOMAIN rows |->
        IF i <= LastSampled(rows, ras)
        THEN [rows[i] EXCEPT !.RasElev = GetCellValue(ras, rows[i].x, rows[i].y)]
        ELSE rows[i]]

ExtractElevation ==
    /\ pc = "extract"
    /\ LET rows == Table(target)
           ras == Raster(elevArg)
           ff == FirstFailure(rows, ras, 1)
           new == SampledRows(rows, ras)
       IN  /\ IF target = "plots"
              THEN plots' = new /\ UNCHANGED cardinals
              ELSE cardinals' = new /\ UNCHANGED plots
           /\ tried' = tried \cup {<<target, i>> : i \in {j \in DOMAIN rows : j <= ff}}
           /\ failed' = failed \cup {<<target, i>> : i \in {j \in DOMAIN rows : j = ff}}
    /\ pc' = IF elevArg = "out" THEN "delete" ELSE AfterExtract(target)
    /\ target' = IF elevArg = "out" THEN target ELSE "cardinals"
    /\ UNCHANGED <<inputRadius, inputRaster, outRaster, nullable, elevArg,
                   run, faulted, tsiFirst>>

\* The UpdateCursor of extract_elevation cannot be opened: the handler's
\* 'del cursor' finds cursor unbound and raises; nothing catches it.
ExtractCursorFault ==
    /\ pc = "extract"
    /\ ~faulted
    /\ faulted' = TRUE
    /\ pc' = "raised_extract"
    /\ UNCHANGED <<plots, cardinals, inputRadius, inputRaster, outRaster,
                   nullable, target, elevArg, tried, failed, run, tsiFirst>>

\* Variant of DeleteRaster: raster_extract returns without deleting the copy.
DeleteRasterSkipped ==
    /\ pc = "delete"
    /\ pc' = AfterExtract(target)
    /\ target' = "cardinals"
    /\ UNCHANGED <<plots, cardinals, inputRadius, inputRaster, outRaster,
                   nullable, elevArg, tried, failed, run, faulted, tsiFirst>>

\* arcpy.Delete_management(outRaster), then the return of raster_extract.
DeleteRaster ==
    /\ pc = "delete"
    /\ outRaster' = Null
    /\ pc' = AfterExtract(target)
    /\ target' = "cardinals"
    /\ UNCHANGED <<plots, cardinals, inputRadius, inputRaster, nullable,
                   elevArg, tried, failed, run, faulted, tsiFirst>>

----------------------------------------------------------------------------
(* calculate_zhat *)

\* What a cursor hands to the program for a field: a shapefile has no null,
\* a numeric field that was never written reads as zero.
ReadField(v, zero) == IF v = Null /\ ~nullable THEN zero ELSE v

\* The orders in which 'for i in unique_ofids' may visit list(set(ofids)).
Orders(S) == {s \in [1 .. Cardinality(S) -> S] : Injective(s)}

\* pointElevs: the RasElev column of the plot table, in storage order.
PointElevs(rows) == [k \in DOMAIN rows |-> ReadField(rows[k].RasElev, <<0>>)]

\* The RasElev values of the cardinal rows selected by "Id = i".
CardElevsOf(i, cards) ==
    LET sel == SelectSeq(cards, LAMBDA c : c.Id = i)
    IN  [k \in DOMAIN sel |-> ReadField(sel[k].RasElev, <<0>>)]

\* One pass of the loop body for identifier i.  pointElevs[i] indexes the
\* list by position: past its end it raises IndexError; a None operand of
\* the subtraction raises TypeError.  Neither is caught.
ZhatStep(i, pointElevs, cards, rows) ==
    IF i + 1 > Len(pointElevs) THEN [rows |-> rows, raised |-> TRUE]
    ELSE
      LET pe == pointElevs[i + 1]
          ce == CardElevsOf(i, cards)
      IN  IF pe = Null \/ \E k \in DOMAIN ce : ce[k] = Null
          THEN [rows |-> rows, raised |-> TRUE]
          ELSE
            LET cardElevs == [k \in DOMAIN ce |-> ce[k][1] - pe[1]]
                zhat == <<SeqSum(cardElevs), Len(cardElevs)>>
            IN  [rows |-> [k \in DOMAIN rows |->
                              IF rows[k].FID = i
                              THEN [rows[k] EXCEPT !.Zhat = zhat]
                              ELSE rows[k]],
                 raised |-> FALSE]

RECURSIVE ZhatLoop(_, _, _, _)
ZhatLoop(order, pointElevs, cards, rows) ==
    IF order = << >> THEN [rows |-> rows, raised |-> FALSE]
    ELSE LET step == ZhatStep(Head(order), pointElevs, cards, rows)
         IN  IF step.raised THEN step
             ELSE ZhatLoop(Tail(order), pointElevs, cards, step.rows)

CalculateZhat ==
    /\ pc = "zhat"
    /\ \E order \in Orders({cardinals[k].Id : k \in DOMAIN cardinals}) :
          LET res == ZhatLoop(order, PointElevs(plots), cardinals, plots)
          IN  /\ plots' = res.rows
              /\ pc' = IF res.raised THEN "raised_zhat" ELSE "tsi"
    /\ UNCHANGED <<cardinals, inputRadius, inputRaster, outRaster, nullable,
                   target, elevArg, tried, failed, run, faulted, tsiFirst>>

----------------------------------------------------------------------------
(* calculate_tsi *)

\* Whether 'row[0]/float(plotRadius)' raises for a row: a None z-hat
\* (TypeError) or a zero radius (ZeroDivisionError).
TsiRaises(row, plotRadius) ==
    ReadField(row.Zhat, <<0, 1>>) = Null \/ plotRadius = 0

RECURSIVE FirstTsiFailure(_, _, _)
FirstTsiFailure(rows, plotRadius, i) ==
    IF i > Len(rows) THEN i
    ELSE IF TsiRaises(rows[i], plotRadius) THEN i
    ELSE FirstTsiFailure(rows, plotRadius, i + 1)

\* The plot rows after the cursor loop of calculate_tsi; the try block
\* encloses the loop, so the first raising row ends it.
TsiRows(rows, plotRadius) ==
    LET ff == FirstTsiFailure(rows, plotRadius, 1)
    IN  [i \in DOMAIN rows |->
            IF i < ff
            THEN LET z == ReadField(rows[i].Zhat, <<0, 1>>)
                 IN  [rows[i] EXCEPT !.TSI = <<z[1], z[2] * plotRadius>>]
            ELSE rows[i]]

CalculateTsi ==
    /\ pc = "tsi"
    /\ plots' = TsiRows(plots, inputRadius)
    /\ pc' = "done"
    /\ UNCHANGED <<cardinals, inputRadius, inputRaster, outRaster, nullable,
                   target, elevArg, tried, failed, run, faulted, tsiFirst>>

----------------------------------------------------------------------------
(* The pipeline is run a second time on the same files *)

Rerun ==
    /\ pc = "done"
    /\ run = 1
    /\ run' = 2
    /\ tsiFirst' = [i \in DOMAIN plots |-> plots[i].TSI]
    /\ pc' = "create"
    /\ target' = "plots"
    /\ tried' = {}
    /\ failed' = {}
    /\ UNCHANGED <<plots, cardinals, inputRadius, inputRaster, outRaster,
                   nullable, elevArg, faulted>>

Next ==
    \/ CreateCardinals
    \/ RasterExtract
    \/ ExtractElevation
    \/ ExtractCursorFault
    \/ DeleteRaster
    \/ CalculateZhat
    \/ CalculateTsi
    \/ Rerun

Spec == Init /\ [][Next]_vars

----------------------------------------------------------------------------
(* Vocabulary of the properties *)

\* Equality of two fractions <<num, den>>.
FracEq(a, b) == a[1] * b[2] = b[1] * a[2]

\* Equality of two field values that hold a fraction or nothing.
SameValue(a, b) ==
    IF a = Null \/ b = Null THEN a = b ELSE FracEq(a, b)

\* The cardinal rows owned by the plot with identifier f, in table order.
OwnedBy(f) == SelectSeq(cardinals, LAMBDA c : c.Id = f)

\* Those of them that carry an elevation.
ValidOwnedBy(f) == SelectSeq(OwnedBy(f), LAMBDA c : c.RasElev # Null)

\* Sum of (cardinal elevation - plot elevation) over the valid cardinals of
\* plot row p, whose own elevation is set.
DeviationSum(p) ==
    LET v == ValidOwnedBy(p.FID)
    IN  SeqSum([k \in DOMAIN v |-> v[k].RasElev[1] - p.RasElev[1]])

\* The elevation of the surface at a point given in the points' reference;
\* Null where sampling fails (outside the extent, or no data).
SurfaceAt(x, y) == GetCellValue(ProjectRaster(inputRaster, PointSR), x, y)

\* extract_elevation has returned for the plot table / the cardinal table
\* in the current run.
PlotsSampled ==
    \/ pc \in {"zhat", "tsi", "done", "raised_zhat"}
    \/ target = "plots" /\ pc = "delete"
    \/ target = "cardinals" /\ pc \in {"rx", "extract", "delete"}

CardinalsSampled ==
    \/ pc \in {"zhat", "tsi", "done", "raised_zhat"}
    \/ target = "cardinals" /\ pc = "delete"

\* Point i of table t is settled: its elevation is set, or its failure was
\* recorded.
Settled(t, i) == Table(t)[i].RasElev # Null \/ <<t, i>> \in failed

\* In table t, exactly the points where sampling fails have no elevation.
ContainedIn(t) ==
    \A i \in DOMAIN Table(t) :
        LET row == Table(t)[i]
        IN  (SurfaceAt(row.x, row.y) = Null) <=> (row.RasElev = Null)

\* Plot row p owns no cardinal row that carries an elevation.
NoValidCardinal(p) == ValidOwnedBy(p.FID) = << >>

\* The offset of the k-th cardinal point from its centre, for radius r and
\* diagonal offset d.
OffsetAt(k, r, d) ==
    CASE k = 1 -> <<0, r>>   [] k = 2 -> <<0, -r>>
      [] k = 3 -> <<r, 0>>   [] k = 4 -> <<-r, 0>>
      [] k = 5 -> <<d, d>>   [] k = 6 -> <<d, -d>>
      [] k = 7 -> <<-d, d>>  [] k = 8 -> <<-d, -d>>

----------------------------------------------------------------------------
(* C1: a sampling failure is contained to its point: once extract_elevation
   has gone over a table, every point the surface can be sampled at has its
   elevation populated and every point where sampling fails has it unset,
   wherever the failing points stand in the iteration order. *)
C1_SamplingFailureContained ==
    (run = 1 /\ inputRadius > 0 /\ ~faulted) =>
        /\ PlotsSampled => ContainedIn("plots")
        /\ CardinalsSampled => ContainedIn("cardinals")

(* C2: calculate_zhat groups by identifier: once it has returned, every plot
   that owns cardinal records (all elevations involved being set) holds the
   mean of (cardinal elevation - that plot's elevation) over the cardinals
   whose Id is the plot's identifier, whatever the identifiers and the storage
   order of the plot rows. *)
C2_ZhatKeyedByIdentifier ==
    (run = 1 /\ inputRadius > 0 /\ ~faulted /\ pc = "tsi") =>
        \A i \in DOMAIN plots :
            LET p == plots[i]
                own == OwnedBy(p.FID)
            IN  (/\ own # << >>
                 /\ p.RasElev # Null
                 /\ Len(ValidOwnedBy(p.FID)) = Len(own))
                => /\ p.Zhat # Null
                   /\ FracEq(p.Zhat, <<DeviationSum(p), Len(own)>>)

(* C3: a plot with 8 cardinal records of which only k, 1 <= k < 8, carry an
   elevation still gets a z-hat from calculate_zhat, the sum of the k valid
   deviations divided by k. *)
C3_PartialMeanOverValid ==
    (run = 1 /\ inputRadius > 0 /\ ~faulted /\ pc \in {"tsi", "raised_zhat"}) =>
        \A i \in DOMAIN plots :
            LET p == plots[i]
                k == Len(ValidOwnedBy(p.FID))
            IN  (/\ Len(OwnedBy(p.FID)) = NumCardinals
                 /\ p.RasElev # Null
                 /\ k \in 1 .. NumCardinals - 1)
                => /\ p.Zhat # Null
                   /\ FracEq(p.Zhat, <<DeviationSum(p), k>>)

(* C4: at the end of a run with a positive radius, a plot without any valid
   cardinal elevation has neither z-hat nor TSI, and every other plot with
   its own elevation and at least one valid cardinal elevation has both. *)
C4_EmptyPlotNotFatal ==
    (run = 1 /\ inputRadius > 0 /\ ~faulted /\ pc \in {"done", "raised_zhat"}) =>
        \A i \in DOMAIN plots :
            LET p == plots[i]
            IN  /\ NoValidCardinal(p) => (p.Zhat = Null /\ p.TSI = Null)
                /\ (/\ ~NoValidCardinal(p)
                    /\ p.RasElev # Null
                    /\ \E j \in DOMAIN plots : NoValidCardinal(plots[j]))
                   => (p.Zhat # Null /\ p.TSI # Null)

(* C5: once create_cardinals has returned, the cardinal table holds exactly
   8 rows for every plot, tagged with the plot's identifier, and no row is
   tagged with an identifier that is not a plot's, also when an insert
   failed. *)
C5_EightCardinalsPerPlot ==
    (run = 1 /\ inputRadius > 0 /\ pc # "create") =>
        /\ \A i \in DOMAIN plots : Len(OwnedBy(plots[i].FID)) = NumCardinals
        /\ \A k \in DOMAIN cardinals :
               \E i \in DOMAIN plots : cardinals[k].Id = plots[i].FID

(* C6: for a radius r > 0 the rows create_cardinals inserts for a plot at
   (x, y) are, in order, N, S, E, W, NE, SE, NW, SW at (0,+r), (0,-r),
   (+r,0), (-r,0), (+d,+d), (+d,-d), (-d,+d), (-d,-d) from (x, y), with one
   d, 0 < d < r, and they are pairwise distinct.  (After a failed insert
   the rows a plot has are the first ones of that sequence.) *)
C6_OffsetsInOrder ==
    inputRadius > 0 =>
        \A i \in DOMAIN plots :
            LET p == plots[i]
                own == OwnedBy(p.FID)
                r == inputRadius * Scale
                d == IF Len(own) >= 5 THEN own[5].x - p.x ELSE 1
            IN  /\ Len(own) <= NumCardinals
                /\ Len(own) >= 5 => (0 < d /\ d < r)
                /\ \A k \in DOMAIN own :
                       /\ own[k].Id = p.FID
                       /\ <<own[k].x - p.x, own[k].y - p.y>> = OffsetAt(k, r, d)
                /\ \A k, m \in DOMAIN own :
                       (own[k].x = own[m].x /\ own[k].y = own[m].y) => k = m

C6_Witness ==
    /\ inputRadius > 0
    /\ \E i \in DOMAIN plots : Len(OwnedBy(plots[i].FID)) = NumCardinals

(* C7: a run whose radius is <= 0 is rejected before anything is generated:
   no cardinal row is created and no z-hat or TSI is written. *)
C7_NonPositiveRadiusRejected ==
    inputRadius <= 0 =>
        /\ cardinals = << >>
        /\ \A i \in DOMAIN plots : plots[i].Zhat = Null /\ plots[i].TSI = Null

(* C8: a second run on the same plots, radius and raster leaves every plot
   with the TSI the first run gave it. *)
C8_SecondRunSameTsi ==
    (run = 2 /\ inputRadius > 0 /\ pc = "done") =>
        \A i \in DOMAIN plots : SameValue(plots[i].TSI, tsiFirst[i])

(* C9: when the references differ the raster, never the points, is projected
   into the points' reference before the first point is sampled, every
   sampled point is sampled on the projected copy, and the copy is gone once
   raster_extract has returned, also when the sampling of a point failed;
   when the references match no copy is ever made. *)
C9_ProjectedCopyTransient ==
    /\ SameReference(inputRaster) => outRaster = Null
    /\ pc \in {"create", "rx", "zhat", "tsi", "done", "raised_zhat"}
          => outRaster = Null
    /\ \A i \in DOMAIN plots :
           <<plots[i].x, plots[i].y>> = Center(plots[i].FID)
    /\ (pc = "extract" /\ ~SameReference(inputRaster)) =>
           /\ outRaster # Null
           /\ outRaster[1].sr = PointSR
           /\ elevArg = "out"
           /\ \A i \in DOMAIN Table(target) : <<target, i>> \notin tried
    /\ (pc = "delete") =>
           /\ outRaster # Null
           /\ \A i \in DOMAIN Table(target) :
                  <<target, i>> \in tried \ failed =>
                      Table(target)[i].RasElev =
                          GetCellValue(outRaster[1], Table(target)[i].x,
                                       Table(target)[i].y)

C9_Witness ==
    /\ ~SameReference(inputRaster)
    /\ pc = "rx"
    /\ target = "cardinals"
    /\ \E i \in DOMAIN plots : <<"plots", i>> \in failed
    /\ \E i \in DOMAIN plots : plots[i].RasElev # Null

(* C10: the stages run in order, each finishing before the next begins:
   z-hat aggregation does not start before every plot and every cardinal
   point is settled (elevation set, or failure recorded), and no plot has a
   TSI before it has a z-hat. *)
C10_StagesInOrder ==
    (run = 1 /\ inputRadius > 0 /\ ~faulted) =>
        /\ pc = "zhat" =>
               /\ \A i \in DOMAIN plots : Settled("plots", i)
               /\ \A k \in DOMAIN cardinals : Settled("cardinals", k)
        /\ \A i \in DOMAIN plots : plots[i].TSI # Null => plots[i].Zhat # Null

====
